---- MODULE Spec2Model ----
(***************************************************************************)
(* Personal Expense Tracker (src/app.py): the expense ledger held in the   *)
(* Streamlit session state, the backing file expenses.csv, and the four    *)
(* pages of main (Add Expense, View Expenses, Track Budget, Save Data).    *)
(*                                                                         *)
(* Text is a sequence of one-character strings, so that strptime, float,   *)
(* str.startswith and the CSV conversions work on characters.  The         *)
(* characters are those of U+0000 to U+00FF: the decimal digits and the    *)
(* spaces that Unicode has beyond them, which strptime and float() take    *)
(* like the ASCII ones, are not among them.  A Python value is a record    *)
(* [t, s, v, m, e]:                                                        *)
(*   t = "str"    the text s                                               *)
(*   t = "int"    the integer v * m (v the sign 1 or -1, m the magnitude)  *)
(*   t = "float"  the binary64 float v * m * 2^e, m odd and below 2^53     *)
(*                (0.0 is m = <<>> with v = 1, -0.0 with v = -1)           *)
(*   t = "nan"    float('nan'), which is also pandas' missing value        *)
(*   t = "inf"    float('inf') (v = 1) or float('-inf') (v = -1)           *)
(*   t = "none"   None                                                     *)
(* Magnitudes are numbers of any size, held as sequences of limbs.         *)
(* An expense is a function from some of the keys Date, Category, Amount,  *)
(* Description to values (a Python dict, its keys in that order).          *)
(***************************************************************************)
EXTENDS Integers, Sequences, FiniteSets, TLC

VARIABLES
    file,            \* the backing file expenses.csv
    inSession,       \* 'expenses' in st.session_state
    expenses,        \* st.session_state.expenses
    monthly_budget,  \* st.session_state.monthly_budget
    nLoaded,         \* how many records the session's load_expenses() returned
    op,              \* the operation that ran last
    arg,             \* its input (the submitted expense, the file loaded, ...)
    out              \* what it returned or showed

vars == <<file, inSession, expenses, monthly_budget, nLoaded, op, arg, out>>

----------------------------------------------------------------------------
(* Characters and digits *)

Digits == {"0", "1", "2", "3", "4", "5", "6", "7", "8", "9"}

DigitVal(c) ==
    CASE c = "0" -> 0 [] c = "1" -> 1 [] c = "2" -> 2 [] c = "3" -> 3
      [] c = "4" -> 4 [] c = "5" -> 5 [] c = "6" -> 6 [] c = "7" -> 7
      [] c = "8" -> 8 [] c = "9" -> 9

DigitChar(d) == <<"0", "1", "2", "3", "4", "5", "6", "7", "8", "9">>[d + 1]

\* The character of s at i, or "" past its end.
At(s, i) == IF i \in 1..Len(s) THEN s[i] ELSE ""

AllDigits(s) == \A i \in 1..Len(s) : s[i] \in Digits

RECURSIVE DigitsVal(_)
DigitsVal(s) ==
    IF s = <<>> THEN 0
    ELSE 10 * DigitsVal(SubSeq(s, 1, Len(s) - 1)) + DigitVal(s[Len(s)])

RECURSIVE NatText(_)
NatText(n) ==
    IF n < 10 THEN <<DigitChar(n)>>
    ELSE NatText(n \div 10) \o <<DigitChar(n % 10)>>

\* str.startswith
StartsWith(s, p) == Len(p) <= Len(s) /\ SubSeq(s, 1, Len(p)) = p

----------------------------------------------------------------------------
(* Natural numbers of any size: the limbs of the number in base Base, the  *)
(* least significant first, the last one not 0 (zero is <<>>).  Carries    *)
(* are found by looking back over the limbs rather than by passing them    *)
(* on limb by limb, and what has to be repeated is repeated by halves, so  *)
(* that the depth of an evaluation stays small.                            *)

Base == 10000

Max(S) == CHOOSE x \in S : \A y \in S : y <= x

Min(S) == CHOOSE x \in S : \A y \in S : x <= y

Low(a) == IF a = <<>> THEN 0 ELSE a[1]

\* The limb of a at i, 0 outside of a.
Limb(a, i) == IF i \in 1..Len(a) THEN a[i] ELSE 0

\* a without the zero limbs at its end
BigTrim(a) ==
    IF \A i \in 1..Len(a) : a[i] = 0 THEN <<>>
    ELSE SubSeq(a, 1, CHOOSE n \in 1..Len(a) :
                          a[n] # 0 /\ \A i \in (n + 1)..Len(a) : a[i] = 0)

\* The number n < Base^3.
BigOf(n) == BigTrim(<<n % Base, (n \div Base) % Base, n \div (Base * Base)>>)

\* c with what each limb has above Base moved to the next limb, once.
Reduce(c) ==
    SubSeq([i \in 1..(Len(c) + 1) |-> (Limb(c, i) % Base) + (Limb(c, i - 1) \div Base)],
           1, Len(c) + 1)

\* The carry into limb k of c, whose limbs are below 2 * Base: there is one
\* when the nearest limb below k that is not Base - 1 is Base or more.
CarryInto(c, k) ==
    IF \E j \in 1..(k - 1) :
          c[j] >= Base /\ \A i \in (j + 1)..(k - 1) : c[i] = Base - 1
    THEN 1 ELSE 0

\* The number of the limbs c, each below 2 * Base.
Carried(c) ==
    BigTrim([k \in 1..(Len(c) + 1) |-> (Limb(c, k) + CarryInto(c, k)) % Base])

BigAdd(a, b) ==
    LET n == IF Len(a) > Len(b) THEN Len(a) ELSE Len(b)
    IN Carried(SubSeq([i \in 1..n |-> Limb(a, i) + Limb(b, i)], 1, n))

\* The borrow from limb k of the differences d: there is one when the
\* nearest difference below k that is not 0 is negative.
BorrowFrom(d, k) ==
    IF \E j \in 1..(k - 1) : d[j] < 0 /\ \A i \in (j + 1)..(k - 1) : d[i] = 0
    THEN 1 ELSE 0

\* a - b for a >= b
BigSub(a, b) ==
    LET d == SubSeq([i \in 1..Len(a) |-> a[i] - Limb(b, i)], 1, Len(a))
    IN BigTrim([k \in 1..Len(a) |-> (d[k] - BorrowFrom(d, k) + Base) % Base])

\* -1, 0 or 1 as a < b, a = b or a > b
BigCmp(a, b) ==
    IF Len(a) < Len(b) THEN -1
    ELSE IF Len(a) > Len(b) THEN 1
    ELSE IF a = b THEN 0
    ELSE IF \E i \in 1..Len(a) : a[i] > b[i] /\ \A j \in (i + 1)..Len(a) : a[j] = b[j]
    THEN 1 ELSE -1

\* a * k for 0 <= k <= Base
BigMulS(a, k) ==
    Carried(Reduce(SubSeq([i \in 1..Len(a) |-> a[i] * k], 1, Len(a))))

\* Quotient and remainder of a by a divisor k of Base: a limb of the
\* quotient takes in what the limb above leaves.
BigDivRem(a, k) ==
    [q |-> BigTrim([i \in 1..Len(a) |-> ((Limb(a, i + 1) % k) * Base + a[i]) \div k]),
     r |-> Low(a) % k]

\* a * 2^n
RECURSIVE BigShl(_, _)
BigShl(a, n) ==
    IF a = <<>> THEN <<>>
    ELSE IF n <= 13 THEN BigMulS(a, 2 ^ n)
    ELSE BigShl(BigShl(a, n \div 2), n - n \div 2)

\* floor(a / 2^n), and whether bits were lost (or inexact was set already)
RECURSIVE BigShr(_, _, _)
BigShr(a, n, inexact) ==
    IF a = <<>> THEN [q |-> <<>>, inexact |-> inexact]
    ELSE IF n <= 4
    THEN [q |-> BigDivRem(a, 2 ^ n).q, inexact |-> inexact \/ BigDivRem(a, 2 ^ n).r # 0]
    ELSE BigShr(BigShr(a, n \div 2, inexact).q, n - n \div 2,
                BigShr(a, n \div 2, inexact).inexact)

\* a * 5^n
RECURSIVE BigMul5(_, _)
BigMul5(a, n) ==
    IF a = <<>> THEN <<>>
    ELSE IF n <= 5 THEN BigMulS(a, 5 ^ n)
    ELSE BigMul5(BigMul5(a, n \div 2), n - n \div 2)

\* a * 10^n
BigMul10(a, n) ==
    IF a = <<>> THEN <<>>
    ELSE [i \in 1..(n \div 4) |-> 0] \o BigMulS(a, 10 ^ (n % 4))

\* floor(a / 10^n), and whether the division left a remainder
BigDiv10(a, n) ==
    LET dropped == IF n \div 4 < Len(a) THEN n \div 4 ELSE Len(a)
        d == BigDivRem(SubSeq(a, dropped + 1, Len(a)), 10 ^ (n % 4))
    IN [q |-> d.q, inexact |-> d.r # 0 \/ \E i \in 1..dropped : a[i] # 0]

\* The digits ds without the zeros they begin with.
DropZeros(ds) ==
    IF \A i \in 1..Len(ds) : ds[i] = 0 THEN <<>>
    ELSE SubSeq(ds, CHOOSE n \in 1..Len(ds) :
                        ds[n] # 0 /\ \A i \in 1..(n - 1) : ds[i] = 0, Len(ds))

\* The decimal digits of a, the most significant first (none for zero).
BigDigits(a) ==
    DropZeros([j \in 1..(4 * Len(a)) |->
                  LET limb == a[Len(a) - ((j - 1) \div 4)]
                  IN (limb \div (10 ^ (3 - ((j - 1) % 4)))) % 10])

\* How many decimal digits a has.
BigLen(a) == Len(BigDigits(a))

\* The number written by the digit characters s.
BigOfText(s) ==
    BigTrim([i \in 1..((Len(s) + 3) \div 4) |->
                DigitsVal(SubSeq(s, IF Len(s) - 4 * i + 1 < 1 THEN 1 ELSE Len(s) - 4 * i + 1,
                                 Len(s) - 4 * (i - 1)))])

\* The number of the decimal digits ds (most significant first).
BigOfDigits(ds) == BigOfText([i \in 1..Len(ds) |-> DigitChar(ds[i])])

\* Whether 2^k <= a
AtLeastPow2(a, k) == BigCmp(a, BigShl(<<1>>, k)) >= 0

\* The number of bits of a limb t > 0.
LimbBits(t) == CHOOSE b \in 1..14 : 2 ^ (b - 1) <= t /\ t < 2 ^ b

\* The number of bits of a: a limb under the last one carries
\* log2(Base) = 13.28771... bits, which places it within four numbers.
BitLen(a) ==
    IF a = <<>> THEN 0
    ELSE LET under == 13 * (Len(a) - 1) + (28771 * (Len(a) - 1)) \div 100000
             near == LimbBits(a[Len(a)]) + under
         IN CHOOSE k \in (near - 1)..(near + 2) :
                (k = 0 \/ AtLeastPow2(a, k - 1)) /\ ~AtLeastPow2(a, k)

----------------------------------------------------------------------------
(* Python values *)

Str(s) == [t |-> "str", s |-> s, v |-> 0, m |-> <<>>, e |-> 0]
IntV(sign, m) == [t |-> "int", s |-> <<>>, v |-> sign, m |-> m, e |-> 0]
FloatV(sign, m, e) == [t |-> "float", s |-> <<>>, v |-> sign, m |-> m, e |-> e]
NaN == [t |-> "nan", s |-> <<>>, v |-> 0, m |-> <<>>, e |-> 0]
Inf(sign) == [t |-> "inf", s |-> <<>>, v |-> sign, m |-> <<>>, e |-> 0]
None == [t |-> "none", s |-> <<>>, v |-> 0, m |-> <<>>, e |-> 0]

\* bool(x): None, "", 0 and 0.0 are falsy; nan and inf are truthy.
Truthy(x) ==
    CASE x.t = "str" -> x.s # <<>>
      [] x.t \in {"int", "float"} -> x.m # <<>>
      [] x.t = "none" -> FALSE
      [] OTHER -> TRUE

\* x > 0 for a float x
Positive(x) == x.t \in {"float", "inf"} /\ x.v = 1 /\ (x.t = "inf" \/ x.m # <<>>)

----------------------------------------------------------------------------
(* datetime.strptime(s, DATE_FORMAT), DATE_FORMAT being '%Y-%m-%d' *)

\* %m is the regex 1[0-2]|0[1-9]|[1-9]: the lengths its alternatives match
\* at position i, in the order the regex tries them.
MonthLens(s, i) ==
    (IF \/ (At(s, i) = "1" /\ At(s, i + 1) \in {"0", "1", "2"})
        \/ (At(s, i) = "0" /\ At(s, i + 1) \in Digits \ {"0"})
     THEN <<2>> ELSE <<>>)
    \o (IF At(s, i) \in Digits \ {"0"} THEN <<1>> ELSE <<>>)

\* %d is the regex 3[0-1]|[1-2]\d|0[1-9]|[1-9]| [1-9]: the length of the
\* first alternative that matches at position j, 0 when none does.
DayLen(s, j) ==
    IF \/ (At(s, j) = "3" /\ At(s, j + 1) \in {"0", "1"})
       \/ (At(s, j) \in {"1", "2"} /\ At(s, j + 1) \in Digits)
       \/ (At(s, j) = "0" /\ At(s, j + 1) \in Digits \ {"0"})
    THEN 2
    ELSE IF At(s, j) \in Digits \ {"0"} THEN 1
    ELSE IF At(s, j) = " " /\ At(s, j + 1) \in Digits \ {"0"} THEN 2
    ELSE 0

\* The month lengths with which the whole regex \d\d\d\d-%m-%d matches a
\* prefix of s, in the order of the regex's search.
DateMatches(s) ==
    IF Len(s) >= 5 /\ AllDigits(SubSeq(s, 1, 4)) /\ s[5] = "-"
    THEN SelectSeq(MonthLens(s, 6),
                   LAMBDA m : At(s, 6 + m) = "-" /\ DayLen(s, 7 + m) > 0)
    ELSE <<>>

IsLeap(y) == y % 4 = 0 /\ (y % 100 # 0 \/ y % 400 = 0)

DaysInMonth(y, m) ==
    IF m = 2 THEN (IF IsLeap(y) THEN 29 ELSE 28)
    ELSE IF m \in {4, 6, 9, 11} THEN 30 ELSE 31

\* TRUE when strptime returns a datetime, FALSE when it raises ValueError:
\* no match, unconverted data after the match, year 0, or a day the month
\* does not have.
StrptimeOk(s) ==
    LET ms == DateMatches(s) IN
    /\ ms # <<>>
    /\ LET m == ms[1]
           d == DayLen(s, 7 + m)
           year == DigitsVal(SubSeq(s, 1, 4))
           month == DigitsVal(SubSeq(s, 6, 5 + m))
           dayText == SubSeq(s, 7 + m, 6 + m + d)
           day == DigitsVal(IF dayText[1] = " " THEN Tail(dayText) ELSE dayText)
       IN /\ 6 + m + d = Len(s)
          /\ year >= 1
          /\ day <= DaysInMonth(year, month)

----------------------------------------------------------------------------
(* IEEE 754 binary64 *)

MantissaBits == 53
MinExponent == -1074
MaxExponent == 1024

TwoTo53 == BigShl(<<1>>, MantissaBits)

\* m * 2^e with the factors of two of m moved to the exponent
RECURSIVE Canonical(_, _)
Canonical(m, e) ==
    IF m = <<>> THEN [m |-> <<>>, e |-> 0]
    ELSE IF m[1] % 16 = 0 THEN Canonical(BigDivRem(m, 16).q, e + 4)
    ELSE LET twos == CHOOSE t \in 0..3 : m[1] % (2 ^ t) = 0 /\ m[1] % (2 ^ (t + 1)) # 0
         IN [m |-> BigDivRem(m, 2 ^ twos).q, e |-> e + twos]

\* The quotient d of a division by two with one added when its remainder,
\* and what was lost before it, is above one half, or is one half and d odd.
RoundLast(d, inexact) ==
    IF d.r = 1 /\ (inexact \/ Low(d.q) % 2 = 1) THEN BigAdd(d.q, <<1>>) ELSE d.q

\* kept (a number with one bit more than wanted, and whether bits were
\* lost) rounded to the nearest, ties to even
RoundHalfEven(kept) == RoundLast(BigDivRem(kept.q, 2), kept.inexact)

\* n * 2^e rounded to a multiple of 2^(e + shift), shift >= 1
RoundShift(n, e, inexact, shift) ==
    [m |-> RoundHalfEven(BigShr(n, shift - 1, inexact)), e |-> e + shift]

\* n * 2^e (and more, below one unit of n, when inexact) rounded to the
\* nearest number m * 2^e' with m <= 2^53 and e' >= -1074, ties to the even m
RoundBits(n, e, inexact) ==
    IF e >= MinExponent /\ BigCmp(n, TwoTo53) < 0 THEN [m |-> n, e |-> e]
    ELSE RoundShift(n, e, inexact, Max({BitLen(n) - MantissaBits, MinExponent - e}))

\* Whether c.m * 2^c.e (c.m odd) is 2^1024 or more
Overflows(c) ==
    /\ c.m # <<>>
    /\ c.e > MaxExponent - MantissaBits - 1
    /\ \/ c.e >= MaxExponent
       \/ BigCmp(BigShl(c.m, c.e - (MaxExponent - MantissaBits)), TwoTo53) >= 0

\* The float sign * c.m * 2^c.e (c.m odd): inf from 2^1024 on.
FloatOfCanonical(sign, c) ==
    IF Overflows(c) THEN Inf(sign) ELSE FloatV(sign, c.m, c.e)

FloatOfRounded(sign, r) == FloatOfCanonical(sign, Canonical(r.m, r.e))

\* The float nearest to sign * n * 2^e
RoundToFloat(sign, n, e, inexact) ==
    IF n = <<>> THEN FloatV(sign, <<>>, 0)
    ELSE FloatOfRounded(sign, RoundBits(n, e, inexact))

ExactPowers == 22

\* floor(d * 2^bits / 10^-x) as a number n of units 2^-bits, for x < 0
DivideAt(d, x, bits) ==
    [n |-> BigDiv10(BigShl(d, bits), -x).q, e |-> -bits,
     inexact |-> BigDiv10(BigShl(d, bits), -x).inexact]

\* d * 10^x as n * 2^e (and more when inexact): for x < 0, d * 10^x is
\* (d / 5^-x) * 2^x when 5^-x divides d, which is when d * 2^-x ends in -x
\* zeros; otherwise it is cut after its first 56 bits or more.
Scaled(d, x) ==
    IF x >= 0 THEN [n |-> BigMul10(d, x), e |-> 0, inexact |-> FALSE]
    ELSE DivideAt(d, x, IF -x <= ExactPowers /\ ~BigDiv10(BigShl(d, -x), -x).inexact
                        THEN -x
                        ELSE MantissaBits + 3 + 4 * (-x))

RoundScaled(sign, s) == RoundToFloat(sign, s.n, s.e, s.inexact)

\* The float nearest to sign * d * 10^x (strtod)
FloatFromDecimal(sign, d, x) ==
    CASE d = <<>> -> FloatV(sign, <<>>, 0)
      [] d # <<>> /\ x + BigLen(d) > 310 -> Inf(sign)
      [] d # <<>> /\ x + BigLen(d) < -330 -> FloatV(sign, <<>>, 0)
      [] OTHER -> RoundScaled(sign, Scaled(d, x))

\* av * x * 2^e + bv * y * 2^e for signs av, bv and x, y > 0, c being
\* BigCmp(x, y): a sum that is zero is +0.0.
AddAligned(av, bv, x, y, e, c) ==
    RoundToFloat(IF av = bv \/ c > 0 THEN av ELSE IF c = 0 THEN 1 ELSE bv,
                 IF av = bv THEN BigAdd(x, y)
                 ELSE IF c > 0 THEN BigSub(x, y)
                 ELSE IF c = 0 THEN <<>>
                 ELSE BigSub(y, x),
                 e, FALSE)

\* a.m * 2^a.e + b.m * 2^b.e with the signs av and bv, e being the lesser
\* of the exponents
AddAt(a, b, e) ==
    AddAligned(a.v, b.v, BigShl(a.m, a.e - e), BigShl(b.m, b.e - e), e,
               BigCmp(BigShl(a.m, a.e - e), BigShl(b.m, b.e - e)))

\* a + b
AddFloat(a, b) ==
    IF a.t = "nan" \/ b.t = "nan" THEN NaN
    ELSE IF a.t = "inf" /\ b.t = "inf" THEN (IF a.v = b.v THEN a ELSE NaN)
    ELSE IF a.t = "inf" THEN a
    ELSE IF b.t = "inf" THEN b
    ELSE IF a.m = <<>> /\ b.m = <<>> THEN FloatV(IF a.v = -1 /\ b.v = -1 THEN -1 ELSE 1, <<>>, 0)
    ELSE IF a.m = <<>> THEN b
    ELSE IF b.m = <<>> THEN a
    ELSE AddAt(a, b, IF a.e < b.e THEN a.e ELSE b.e)

\* One step of the long division by d: the next bit of the quotient q, the
\* remainder r doubled.
DivStep(st, d) ==
    IF BigCmp(st.r, d) >= 0
    THEN [q |-> BigAdd(BigMulS(st.q, 2), <<1>>), r |-> BigMulS(BigSub(st.r, d), 2)]
    ELSE [q |-> BigMulS(st.q, 2), r |-> BigMulS(st.r, 2)]

\* k steps of the long division, k >= 1
RECURSIVE DivSteps(_, _, _)
DivSteps(st, d, k) ==
    IF k = 1 THEN DivStep(st, d)
    ELSE CHOOSE done \in { DivSteps(half, d, k - k \div 2) :
                             half \in {DivSteps(st, d, k \div 2)} } : TRUE

QuotientBits == 56

\* sign * (x / y) * 2^e for x and y of 53 bits each: the quotient has 55
\* bits or 56, and what is left of x makes it inexact.
DivAligned(sign, st, e) == RoundToFloat(sign, st.q, e - (QuotientBits - 1), st.r # <<>>)

DivAt(sign, am, bm, e, la, lb) ==
    DivAligned(sign,
               DivSteps([q |-> <<>>, r |-> BigShl(am, MantissaBits - la)],
                        BigShl(bm, MantissaBits - lb), QuotientBits),
               e + la - lb)

\* a / b for a float b that is not zero (a zero b raises ZeroDivisionError)
DivFloat(a, b) ==
    IF a.t = "nan" \/ b.t = "nan" \/ (a.t = "inf" /\ b.t = "inf") THEN NaN
    ELSE IF a.t = "inf" THEN Inf(a.v * b.v)
    ELSE IF b.t = "inf" \/ a.m = <<>> THEN FloatV(a.v * b.v, <<>>, 0)
    ELSE DivAt(a.v * b.v, a.m, b.m, a.e - b.e, BitLen(a.m), BitLen(b.m))

\* a * k for a float a and an int k, 0 < k <= Base
MulFloatInt(a, k) ==
    IF a.t # "float" THEN a ELSE RoundToFloat(a.v, BigMulS(a.m, k), a.e, FALSE)

\* What int(x) raises for a float x, "" when it returns.
IntRaises(x) ==
    CASE x.t = "nan" -> "ValueError"
      [] x.t = "inf" -> "OverflowError"
      [] OTHER -> ""

\* int(x) < 0 for a float x: x <= -1
IntNegative(x) == x.t = "float" /\ x.v = -1 /\ x.m # <<>> /\ BitLen(x.m) + x.e >= 1

----------------------------------------------------------------------------
(* repr(x) of a float: the shortest digits that read back as x *)

\* The exact decimal of m * 2^e: the digits ds and the exponent x with
\* m * 2^e = 0.ds * 10^x.
DecimalOf(ds, e) == [ds |-> ds, x |-> Len(ds) + (IF e >= 0 THEN 0 ELSE e)]

ExactDecimal(m, e) ==
    DecimalOf(BigDigits(IF e >= 0 THEN BigShl(m, e) ELSE BigMul5(m, -e)), e)

DropTrailingZeros(ds) ==
    IF \A i \in 1..Len(ds) : ds[i] = 0 THEN <<>>
    ELSE SubSeq(ds, 1, CHOOSE n \in 1..Len(ds) :
                           ds[n] # 0 /\ \A i \in (n + 1)..Len(ds) : ds[i] = 0)

\* The digits after the first n of ds, against one half of a unit of the
\* n-th digit: -1 below, 0 at, 1 above.
AgainstHalf(ds, n) ==
    IF n >= Len(ds) \/ ds[n + 1] < 5 THEN -1
    ELSE IF ds[n + 1] > 5 \/ \E i \in (n + 2)..Len(ds) : ds[i] # 0 THEN 1
    ELSE 0

\* The number of the first n digits of the exact decimal, plus up (0 or 1).
Candidate(exact, n, up) ==
    BigAdd(BigOfDigits(SubSeq(exact.ds, 1, n)), IF up = 1 THEN <<1>> ELSE <<>>)

\* The first n digits of the exact decimal, up added to the last, read back
\* as m * 2^e: up = 0 is the decimal cut short (all of its digits are the
\* float itself), up = 1 the next decimal of n digits above it.
ReadsBack(m, e, exact, n, up) ==
    \/ up = 0 /\ n = Len(exact.ds)
    \/ /\ n < Len(exact.ds)
       /\ FloatFromDecimal(1, Candidate(exact, n, up), exact.x - n) = FloatV(1, m, e)

SignificantDigits == 17

\* Some decimal of n digits reads back as m * 2^e.
SomeReadsBack(m, e, exact, n) == \E up \in 0..1 : ReadsBack(m, e, exact, n, up)

\* The least number of digits that float() reads back as m * 2^e: at most
\* 17 are needed, what n digits can do n + 1 can, and if some decimal of n
\* digits reads back then one of the two next to the exact decimal does.
ShortestLen(m, e, exact) ==
    CHOOSE k \in 1..Min({Len(exact.ds), SignificantDigits}) :
        \A n \in {k - 1, k} : n = 0 \/ (SomeReadsBack(m, e, exact, n) <=> n = k)

\* Of the two decimals of n digits next to the exact one the upper is
\* taken when it reads back and the lower does not, or is the farther one,
\* or is as far and ends in an odd digit.
TakeHigh(m, e, exact, n) ==
    \A up \in 0..1 :
        \/ /\ up = 0
           /\ \/ AgainstHalf(exact.ds, n) > 0
              \/ AgainstHalf(exact.ds, n) = 0 /\ exact.ds[n] % 2 = 1
        \/ ReadsBack(m, e, exact, n, up) <=> up = 1

\* The digits placed: [ds, x] with the value 0.ds * 10^x
Placed(digits, x) == [ds |-> DropTrailingZeros(digits), x |-> x + Len(digits)]

ShortestAt(m, e, exact, n) ==
    Placed(BigDigits(Candidate(exact, n, IF TakeHigh(m, e, exact, n) THEN 1 ELSE 0)),
           exact.x - n)

ShortestOf(m, e, exact) == ShortestAt(m, e, exact, ShortestLen(m, e, exact))

\* The shortest digits that float() reads back as m * 2^e, and of those
\* the nearest: [ds, x] with the text's value 0.ds * 10^x.
Shortest(m, e) == ShortestOf(m, e, ExactDecimal(m, e))

DigitsText(ds) == [i \in 1..Len(ds) |-> DigitChar(ds[i])]

Zeros(n) == [i \in 1..n |-> "0"]

\* The exponent a of repr, written with two digits at least.
Pad2(a) == IF a < 10 THEN <<"0">> \o NatText(a) ELSE NatText(a)

\* The digits ds (n of them) with the point after the x-th: the
\* exponent form below 1e-4 and from 1e16 on.
ReprDigits(ds, n, x) ==
    IF x <= -4 \/ x > 16
    THEN <<ds[1]>> \o (IF n > 1 THEN <<".">> \o Tail(ds) ELSE <<>>) \o <<"e">>
         \o (IF x - 1 < 0 THEN <<"-">> ELSE <<"+">>)
         \o (IF x - 1 < 0 THEN Pad2(1 - x) ELSE Pad2(x - 1))
    ELSE IF x <= 0 THEN <<"0", ".">> \o Zeros(-x) \o ds
    ELSE IF x >= n THEN ds \o Zeros(x - n) \o <<".", "0">>
    ELSE SubSeq(ds, 1, x) \o <<".">> \o SubSeq(ds, x + 1, n)

ReprOf(short) == ReprDigits(DigitsText(short.ds), Len(short.ds), short.x)

\* repr of the positive float m * 2^e
ReprPositive(m, e) == ReprOf(Shortest(m, e))

\* repr(x) for a float x
FloatRepr(x) ==
    CASE x.t = "nan" -> <<"n", "a", "n">>
      [] x.t = "inf" -> (IF x.v < 0 THEN <<"-">> ELSE <<>>) \o <<"i", "n", "f">>
      [] OTHER -> (IF x.v < 0 THEN <<"-">> ELSE <<>>)
                  \o (IF x.m = <<>> THEN <<"0", ".", "0">> ELSE ReprPositive(x.m, x.e))

\* str(n) for an int n
IntRepr(x) ==
    (IF x.v < 0 /\ x.m # <<>> THEN <<"-">> ELSE <<>>)
    \o (IF x.m = <<>> THEN <<"0">> ELSE DigitsText(BigDigits(x.m)))


----------------------------------------------------------------------------
(* float(x) *)

Lower(c) ==
    CASE c = "A" -> "a" [] c = "E" -> "e" [] c = "F" -> "f" [] c = "I" -> "i"
      [] c = "N" -> "n" [] c = "T" -> "t" [] c = "Y" -> "y"
      [] OTHER -> c

LowerText(s) == [i \in 1..Len(s) |-> Lower(s[i])]

Unsigned(s) == IF At(s, 1) \in {"+", "-"} THEN Tail(s) ELSE s

SignOf(s) == IF At(s, 1) = "-" THEN -1 ELSE 1

\* The characters float() takes for whitespace, of those a string of this
\* module can hold: blank, \t, \n, \r, \f, the vertical tab (U+000B), the
\* next line (U+0085) and the no-break space (U+00A0).
Whitespace == {" ", "\t", "\n", "\r", "\f", "", "", " "}

\* str.strip(): s without its leading and trailing whitespace
Strip(s) ==
    LET black == {i \in 1..Len(s) : s[i] \notin Whitespace}
    IN IF black = {} THEN <<>> ELSE SubSeq(s, Min(black), Max(black))

\* Where the digits that start at i end (the position after them): a run
\* of digits in which single underscores may stand between two digits.
DigitsEnd(s, i) ==
    IF At(s, i) \notin Digits THEN i
    ELSE Min({j \in (i + 1)..(Len(s) + 1) :
                ~ \/ At(s, j) \in Digits
                  \/ /\ At(s, j) = "_"
                     /\ At(s, j - 1) \in Digits
                     /\ At(s, j + 1) \in Digits})

OnlyDigits(s) == SelectSeq(s, LAMBDA c : c \in Digits)

\* The exponent that the digits ds write, 1000000 for any that is longer
\* than six digits.
ExponentValue(ds) ==
    IF \E i \in 1..Len(ds) : ds[i] # "0" /\ Len(ds) - i >= 6 THEN 1000000
    ELSE DigitsVal(ds)

HasDot(s, p1) == At(s, p1) = "."

HasExp(s, p2) == At(s, p2) \in {"e", "E"}

\* The parts of the literal s, whose integer digits end at p1, fraction at
\* p2 and exponent at p4, its digits beginning at p3.
LiteralParts(s, p1, p2, p3, p4) ==
    [ok |-> /\ p1 > 1 \/ (HasDot(s, p1) /\ p2 > p1 + 1)
            /\ HasExp(s, p2) => p4 > p3
            /\ p4 = Len(s) + 1,
     digits |-> OnlyDigits(SubSeq(s, 1, p1 - 1)) \o OnlyDigits(SubSeq(s, p1 + 1, p2 - 1)),
     x |-> (IF ~HasExp(s, p2) THEN 0
            ELSE IF At(s, p2 + 1) = "-" THEN -ExponentValue(OnlyDigits(SubSeq(s, p3, p4 - 1)))
            ELSE ExponentValue(OnlyDigits(SubSeq(s, p3, p4 - 1))))
           - Len(OnlyDigits(SubSeq(s, p1 + 1, p2 - 1)))]

LiteralExp(s, p1, p2, p3) ==
    LiteralParts(s, p1, p2, p3, IF HasExp(s, p2) THEN DigitsEnd(s, p3) ELSE p2)

LiteralFrac(s, p1, p2) ==
    LiteralExp(s, p1, p2, IF At(s, p2 + 1) \in {"+", "-"} THEN p2 + 2 ELSE p2 + 1)

LiteralInt(s, p1) ==
    LiteralFrac(s, p1, IF HasDot(s, p1) THEN DigitsEnd(s, p1 + 1) ELSE p1)

\* The parts of the literal s (no sign, no whitespace):
\* digits [. digits] [e [sign] digits] with a digit before the exponent.
Literal(s) == LiteralInt(s, DigitsEnd(s, 1))

Specials == {<<"n", "a", "n">>, <<"i", "n", "f">>,
             <<"i", "n", "f", "i", "n", "i", "t", "y">>}

\* TRUE when float(s) returns for the text s, FALSE when it raises
\* ValueError.
FloatOk(s) ==
    \/ LowerText(Unsigned(Strip(s))) \in Specials
    \/ Literal(Unsigned(Strip(s))).ok

FloatOfLiteral(sign, lit) == FloatFromDecimal(sign, BigOfText(lit.digits), lit.x)

\* float of the text with the sign and, after it, body
FloatOfBody(sign, body) ==
    IF LowerText(body) = <<"n", "a", "n">> THEN NaN
    ELSE IF LowerText(body) \in Specials THEN Inf(sign)
    ELSE FloatOfLiteral(sign, Literal(body))

FloatOfStripped(text) == FloatOfBody(SignOf(text), Unsigned(text))

\* float(s) for a text s it accepts
FloatOfText(s) == FloatOfStripped(Strip(s))

\* float(x) for a value x on which it raises nothing: an int that rounds
\* to 2^1024 or beyond is no float (float raises OverflowError).
FloatOf(x) ==
    CASE x.t = "str" -> FloatOfText(x.s)
      [] x.t = "int" -> RoundToFloat(x.v, x.m, 0, FALSE)
      [] OTHER -> x

\* The float the text s is a literal of (3.5 for "3.5").
Float(s) == FloatOfText(s)

----------------------------------------------------------------------------
(* validate_expense *)

MsgMissing == "Missing Date, Category, or Amount."
MsgAmount == "Amount must be a valid number."
MsgDate == "Date format should be YYYY-MM-DD."

Required == <<"Date", "Category", "Amount">>

Returned(ok, msg) == [raised |-> "", ok |-> ok, msg |-> msg]
Raised(exc) == [raised |-> exc, ok |-> FALSE, msg |-> ""]

\* validate_expense with the date parsed before the amount is converted.
validate_expense_DateFirst(expense) ==
    IF ~ \A i \in 1..Len(Required) :
            Required[i] \in DOMAIN expense /\ Truthy(expense[Required[i]])
    THEN Returned(FALSE, MsgMissing)
    ELSE IF expense["Date"].t # "str"
    THEN Raised("TypeError")
    ELSE IF ~StrptimeOk(expense["Date"].s)
    THEN Returned(FALSE, MsgDate)
    ELSE IF expense["Amount"].t = "str" /\ ~FloatOk(expense["Amount"].s)
    THEN Returned(FALSE, MsgAmount)
    ELSE IF expense["Amount"].t = "int" /\ FloatOf(expense["Amount"]).t = "inf"
    THEN Raised("OverflowError")
    ELSE Returned(TRUE, "")

\* validate_expense(expense): the pair it returns, or the exception that
\* leaves it (float raises OverflowError on an int too large, strptime
\* TypeError on what is no text, and only ValueError is caught).
validate_expense(expense) ==
    IF ~ \A i \in 1..Len(Required) :
            Required[i] \in DOMAIN expense /\ Truthy(expense[Required[i]])
    THEN Returned(FALSE, MsgMissing)
    ELSE IF expense["Amount"].t = "str" /\ ~FloatOk(expense["Amount"].s)
    THEN Returned(FALSE, MsgAmount)
    ELSE IF expense["Amount"].t = "int" /\ FloatOf(expense["Amount"]).t = "inf"
    THEN Raised("OverflowError")
    ELSE IF expense["Date"].t # "str"
    THEN Raised("TypeError")
    ELSE IF ~StrptimeOk(expense["Date"].s)
    THEN Returned(FALSE, MsgDate)
    ELSE Returned(TRUE, "")

----------------------------------------------------------------------------
(* The flat file: pandas' DataFrame.to_csv and read_csv.  A file is held   *)
(* as its header and its rows of cells; the quoting of cells that hold a   *)
(* comma, a quote or a line break is not modelled.                         *)

Columns == <<"Date", "Category", "Amount", "Description">>

\* A file is absent, empty (no bytes), a header line and rows of cells, or
\* one on which read_csv raises (a row of more fields than the header, a
\* file that cannot be read).
AbsentFile == [kind |-> "absent", header |-> <<>>, rows |-> <<>>]
EmptyFile == [kind |-> "empty", header |-> <<>>, rows |-> <<>>]
MalformedFile == [kind |-> "malformed", header |-> <<>>, rows |-> <<>>]
CsvFile(header, rows) == [kind |-> "csv", header |-> header, rows |-> rows]

\* The keys of the records, in the order of Columns: the columns of
\* pd.DataFrame(records).
KeysOf(records) ==
    SelectSeq(Columns, LAMBDA k : \E i \in 1..Len(records) : k \in DOMAIN records[i])

\* The value under key k of each record, nan where a record lacks the key
\* (pd.DataFrame(records)[k]).
ColumnOf(records, k) ==
    [i \in 1..Len(records) |->
        IF k \in DOMAIN records[i] THEN records[i][k] ELSE NaN]

\* The dtype pandas gives a column of Python values.
ColumnDtype(col) ==
    IF \E i \in 1..Len(col) : col[i].t \in {"str", "none"} THEN "object"
    ELSE IF col # <<>> /\ \A i \in 1..Len(col) : col[i].t = "int" THEN "int64"
    ELSE "float64"

\* What to_csv writes for the value x of a column of the given dtype: a
\* missing value as the empty cell, an int of a float64 column as a float.
CellText(x, dtype) ==
    CASE x.t = "str" -> x.s
      [] x.t = "int" -> IF dtype = "float64" THEN FloatRepr(FloatOf(x)) ELSE IntRepr(x)
      [] x.t \in {"float", "inf"} -> FloatRepr(x)
      [] OTHER -> <<>>

\* pd.DataFrame(records)[columns].to_csv(index=False)
to_csv(records, columns) ==
    CsvFile(columns,
            [i \in 1..Len(records) |->
                [j \in 1..Len(columns) |->
                    CellText(ColumnOf(records, columns[j])[i],
                             ColumnDtype(ColumnOf(records, columns[j])))]])

\* Cells read_csv takes for a missing value (of its default na_values, the
\* ones written in the model's alphabet).
NaTexts ==
    { <<>>, <<"N", "A">>, <<"N", "a", "N">>, <<"n", "a", "n">>,
      <<"N", "/", "A">>, <<"n", "/", "a">>, <<"-", "N", "a", "N">>,
      <<"-", "n", "a", "n">>, <<"N", "U", "L", "L">>, <<"n", "u", "l", "l">>,
      <<"N", "o", "n", "e">> }

\* The cell is an integer for read_csv: a sign and digits, whitespace
\* around them.
IsIntegerText(s) == Unsigned(Strip(s)) # <<>> /\ AllDigits(Unsigned(Strip(s)))

IntOfText(s) ==
    LET m == BigOfText(Unsigned(Strip(s)))
    IN IntV(IF m = <<>> THEN 1 ELSE SignOf(Strip(s)), m)

TwoTo63 == BigShl(<<1>>, 63)

\* The int is one of 64 bits, signed or unsigned.
FitsInt64(x) == BigCmp(x.m, TwoTo63) < 0 \/ (x.v < 0 /\ x.m = TwoTo63)

FitsUint64(x) == x.v > 0 /\ BigCmp(x.m, BigShl(TwoTo63, 1)) < 0

Infinities == {<<"i", "n", "f">>, <<"i", "n", "f", "i", "n", "i", "t", "y">>}

\* The cell is a float for read_csv: a decimal literal without underscores,
\* whitespace around it, or a signed inf or infinity in any case.
IsFloatText(s) ==
    \/ /\ Literal(Unsigned(Strip(s))).ok
       /\ \A i \in 1..Len(s) : s[i] # "_"
    \/ LowerText(Unsigned(s)) \in Infinities

\* The dtype read_csv infers for a column of cells.
CellsDtype(cells) ==
    LET given == {i \in 1..Len(cells) : cells[i] \notin NaTexts} IN
    IF given # {} /\ given = 1..Len(cells)
       /\ \A i \in given : IsIntegerText(cells[i])
    THEN (IF \A i \in given : FitsInt64(IntOfText(cells[i])) THEN "int64"
          ELSE IF \A i \in given : FitsUint64(IntOfText(cells[i])) THEN "uint64"
          ELSE "object")
    ELSE IF \A i \in given : IsFloatText(cells[i])
    THEN "float64"
    ELSE "object"

\* The value read_csv gives a cell of a column of the given dtype.
CellValue(cell, dtype) ==
    IF cell \in NaTexts THEN NaN
    ELSE IF dtype \in {"int64", "uint64"} THEN IntOfText(cell)
    ELSE IF dtype = "float64" THEN FloatOfText(cell)
    ELSE Str(cell)

\* pd.read_csv(file).to_dict(orient='records') for a file with a header
read_csv(f) ==
    [i \in 1..Len(f.rows) |->
        [k \in {f.header[j] : j \in 1..Len(f.header)} |->
            LET j == CHOOSE j \in 1..Len(f.header) : f.header[j] = k
                cells == [r \in 1..Len(f.rows) |-> f.rows[r][j]]
            IN CellValue(cells[i], CellsDtype(cells))]]

\* load_expenses(): the list it returns, the file it leaves and the
\* exception that leaves it.  A missing file is created with the header
\* alone, outside any try: when it cannot be written the error leaves
\* load_expenses.  An empty file raises EmptyDataError and a malformed one
\* ParserError, which are caught.
load_expenses(f, writable) ==
    IF f.kind = "absent"
    THEN (IF writable
          THEN [raised |-> "", records |-> <<>>, file |-> to_csv(<<>>, Columns)]
          ELSE [raised |-> "OSError", records |-> <<>>, file |-> f])
    ELSE IF f.kind \in {"empty", "malformed"}
    THEN [raised |-> "", records |-> <<>>, file |-> f]
    ELSE [raised |-> "", records |-> read_csv(f), file |-> f]

MsgSave == "Error saving expenses to server"

\* save_expenses(expenses): the file it leaves, the error it shows and the
\* exception that leaves it.  The columns are selected outside the try
\* (KeyError when no record has one of them); an error of to_csv is shown
\* and the file stays.  main never calls it.
save_expenses(f, exps, writable) ==
    IF exps # <<>> /\ KeysOf(exps) # Columns
    THEN [raised |-> "KeyError", error |-> "", file |-> f]
    ELSE IF ~writable
    THEN [raised |-> "", error |-> MsgSave, file |-> f]
    ELSE [raised |-> "", error |-> "", file |-> to_csv(exps, Columns)]

----------------------------------------------------------------------------
(* The inputs of a session *)

MaxFileRows == 2   \* rows of the backing file a session starts from
MaxAdds == 2       \* records submitted in one session

Y2025 == <<"2", "0", "2", "5">>
Food == <<"F", "o", "o", "d">>
Bills == <<"B", "i", "l", "l", "s">>
Lunch == <<"l", "u", "n", "c", "h">>

category_options ==
    << Food, <<"T", "r", "a", "n", "s", "p", "o", "r", "t">>,
       <<"S", "h", "o", "p", "p", "i", "n", "g">>,
       <<"E", "n", "t", "e", "r", "t", "a", "i", "n", "m", "e", "n", "t">>,
       Bills, <<"H", "e", "a", "l", "t", "h">>, <<"O", "t", "h", "e", "r">> >>

\* What the widgets of the form hand to main: st.date_input a date,
\* st.selectbox one of category_options, st.number_input a float of at
\* least min_value = 0.01, st.text_area any text.
DateInputs == {<<2025, 7, 1>>, <<2025, 8, 1>>}
CategoryInputs == {category_options[1]}
AmountInputsNoMinimum ==
    {Float(<<"-", "5", ".", "0">>), Float(<<"5", ".", "0">>), Float(<<"1", "0", ".", "0">>)}
AmountInputs == {Float(<<"5", ".", "0">>), Float(<<"1", "0", ".", "0">>)}
DescriptionInputs == {<<>>}

\* st.number_input("Set Monthly Budget", min_value=0.0)
BudgetInputs ==
    {Float(<<"0", ".", "0">>), Float(<<"8", ".", "0">>), Float(<<"1", "e", "-", "3", "0", "8">>)}

\* datetime.now().strftime('%Y-%m')
MonthInputs == {Y2025 \o <<"-", "0", "7">>, Y2025 \o <<"-", "0", "8">>}

\* The rows a backing file may hold when a session starts: written by an
\* earlier export or by hand.
FileRows ==
    { <<Y2025 \o <<"-", "0", "7", "-", "0", "1">>, Food, <<"1", "0", ".", "5">>, Lunch>>,
      <<Y2025 \o <<"-", "0", "7", "-", "0", "3">>, <<>>, <<"-", "5", ".", "0">>, <<>>>>,
      <<Y2025 \o <<"-", "0", "8", "-", "0", "1">>, Bills, <<"a", "b", "c">>, Lunch>>,
      <<<<>>, Food, <<"5">>, Lunch>> }

RECURSIVE SeqsUpTo(_, _)
SeqsUpTo(S, n) ==
    IF n = 0 THEN {<<>>}
    ELSE LET shorter == SeqsUpTo(S, n - 1)
         IN shorter \cup {Append(q, x) : q \in shorter, x \in S}

InitialFiles ==
    {AbsentFile, EmptyFile, MalformedFile}
    \cup {CsvFile(Columns, rows) : rows \in SeqsUpTo(FileRows, MaxFileRows)}

----------------------------------------------------------------------------
(* main *)

Pad(n, width) ==
    LET text == NatText(n)
    IN [i \in 1..(width - Len(text)) |-> "0"] \o text

\* date.strftime(DATE_FORMAT) for the date d = <<year, month, day>>: the C
\* library writes %Y without leading zeros, %m and %d with two digits.
Strftime(d) == NatText(d[1]) \o <<"-">> \o Pad(d[2], 2) \o <<"-">> \o Pad(d[3], 2)

\* new_expense of the submitted form
NewExpense(date, category, amount, description) ==
    [Date |-> Str(Strftime(date)), Category |-> Str(category),
     Amount |-> amount, Description |-> Str(description)]

\* The record put at the front of the ledger.
AppendExpenseAtFront(exps, e) == <<e>> \o exps

\* st.session_state.expenses.append(new_expense)
AppendExpense(exps, e) == Append(exps, e)

\* The exception validate_expense raises on the first record of the ledger
\* on which it raises one, "" when there is none: the pages that validate
\* every record end in it.
ValidateRaises(exps) ==
    LET raising == {i \in 1..Len(exps) : validate_expense(exps[i]).raised # ""}
    IN IF raising = {} THEN "" ELSE validate_expense(exps[Min(raising)]).raised

\* [exp for exp in expenses if validate_expense(exp)[0]]
ValidExpenses(exps) == SelectSeq(exps, LAMBDA e : validate_expense(e).ok)

\* total_spending after the loop over the first n records of the ledger
RECURSIVE TotalSpending(_, _, _)
TotalSpending(exps, current_month, n) ==
    IF n = 0 THEN FloatV(1, <<>>, 0)
    ELSE LET before == TotalSpending(exps, current_month, n - 1)
             expense == exps[n]
         IN IF validate_expense(expense).ok
               /\ StartsWith(expense["Date"].s, current_month)
            THEN AddFloat(before, FloatOf(expense["Amount"]))
            ELSE before

\* pd.DataFrame(valid_expenses_for_download).to_csv(index=False)
csv_data(valid) == to_csv(valid, KeysOf(valid))

\* The Save Data page calling save_expenses with the records it exports.
FileAfterSaveDataWritten(f, valid) == save_expenses(f, valid, TRUE).file

\* The file after the Save Data page: it builds the download and writes
\* nothing to the server.
FileAfterSaveData(f, valid) == f

Nothing == [raised |-> ""]

Init ==
    /\ file \in InitialFiles
    /\ inSession = FALSE
    /\ expenses = <<>>
    /\ monthly_budget = Float(<<"0", ".", "0">>)
    /\ nLoaded = 0
    /\ op = "init"
    /\ arg = Nothing
    /\ out = Nothing

\* The first run of main in a session: 'expenses' is not in the session
\* state, so load_expenses() fills it; the budget starts at 0.0.  When
\* load_expenses raises, the run ends there and the session state stays
\* without 'expenses'.
StartSession ==
    /\ ~inSession
    /\ \E writable \in BOOLEAN :
        LET loaded == load_expenses(file, writable) IN
        /\ expenses' = loaded.records
        /\ file' = loaded.file
        /\ nLoaded' = Len(loaded.records)
        /\ inSession' = (loaded.raised = "")
        /\ arg' = [file |-> file, writable |-> writable]
        /\ out' = [raised |-> loaded.raised, records |-> loaded.records]
    /\ monthly_budget' = Float(<<"0", ".", "0">>)
    /\ op' = "load"

\* The Add Expense page with the form submitted.
AddExpense ==
    /\ inSession
    /\ Len(expenses) - nLoaded < MaxAdds
    /\ \E date \in DateInputs, category \in CategoryInputs,
          amount \in AmountInputs, description \in DescriptionInputs :
            LET new_expense == NewExpense(date, category, amount, description)
                result == validate_expense(new_expense)
            IN /\ expenses' = IF result.ok THEN AppendExpense(expenses, new_expense)
                              ELSE expenses
               /\ arg' = new_expense
               /\ out' = result
    /\ op' = "add"
    /\ UNCHANGED <<file, inSession, monthly_budget, nLoaded>>

\* The View Expenses page: valid_expenses_for_display, which it shows as a
\* table sorted by date (a copy: nothing of the session changes).
ViewExpenses ==
    /\ inSession
    /\ op' = "view"
    /\ arg' = Nothing
    /\ out' = IF ValidateRaises(expenses) # "" THEN [raised |-> ValidateRaises(expenses)]
              ELSE [raised |-> "",
                    valid_expenses_for_display |-> ValidExpenses(expenses)]
    /\ UNCHANGED <<file, inSession, expenses, monthly_budget, nLoaded>>

\* (total_spending / st.session_state.monthly_budget) * 100
budget_percentage(total_spending, budget) ==
    MulFloatInt(DivFloat(total_spending, budget), 100)

\* What st.progress(min(100, int(budget_percentage)), ...) raises, "" when
\* it returns: int() raises on nan and on inf, and st.progress raises
\* StreamlitAPIException on an int outside of 0..100.
ProgressRaises(percentage) ==
    IF IntRaises(percentage) # "" THEN IntRaises(percentage)
    ELSE IF IntNegative(percentage) THEN "StreamlitAPIException"
    ELSE ""

\* What the page shows after the loop: the total, and the exception the
\* progress bar ends in.
TrackResult(total_spending, budget) ==
    [raised |-> IF Positive(budget)
                THEN ProgressRaises(budget_percentage(total_spending, budget))
                ELSE "",
     total_spending |-> total_spending]

\* The Track Budget page: the budget is set before the loop, and the
\* progress bar is drawn when the budget is positive.
TrackBudget ==
    /\ inSession
    /\ \E new_budget \in BudgetInputs, current_month \in MonthInputs :
        /\ monthly_budget' = new_budget
        /\ arg' = [raised |-> "", current_month |-> current_month]
        /\ out' = IF ValidateRaises(expenses) # ""
                  THEN [raised |-> ValidateRaises(expenses), total_spending |-> None]
                  ELSE TrackResult(TotalSpending(expenses, current_month, Len(expenses)),
                                   new_budget)
    /\ op' = "track"
    /\ UNCHANGED <<file, inSession, expenses, nLoaded>>

\* The Save Data page: the CSV of the valid records is offered for download
\* when there is one.
SaveData ==
    /\ inSession
    /\ LET valid_expenses_for_download == ValidExpenses(expenses) IN
       /\ out' = IF ValidateRaises(expenses) # ""
                 THEN [raised |-> ValidateRaises(expenses), offered |-> FALSE,
                       csv_data |-> EmptyFile]
                 ELSE IF valid_expenses_for_download # <<>>
                 THEN [raised |-> "", offered |-> TRUE,
                       csv_data |-> csv_data(valid_expenses_for_download)]
                 ELSE [raised |-> "", offered |-> FALSE, csv_data |-> EmptyFile]
       /\ file' = FileAfterSaveData(file, valid_expenses_for_download)
    /\ op' = "save"
    /\ arg' = Nothing
    /\ UNCHANGED <<inSession, expenses, monthly_budget, nLoaded>>

\* The session ends (the browser tab closes, the server restarts): its
\* session state is gone, the file stays.
EndSession ==
    /\ inSession
    /\ inSession' = FALSE
    /\ expenses' = <<>>
    /\ monthly_budget' = Float(<<"0", ".", "0">>)
    /\ nLoaded' = 0
    /\ op' = "end"
    /\ arg' = Nothing
    /\ out' = Nothing
    /\ UNCHANGED file

Next ==
    \/ StartSession
    \/ AddExpense
    \/ ViewExpenses
    \/ TrackBudget
    \/ SaveData
    \/ EndSession

Spec == Init /\ [][Next]_vars

----------------------------------------------------------------------------
(* validate_expense on its own: any dict, not only those the form builds *)

Absent == [t |-> "absent", s |-> <<>>, v |-> 0, m |-> <<>>, e |-> 0]

\* The dict with the given values, without the keys whose value is Absent.
Dict(date, category, amount, description) ==
    LET all == [Date |-> date, Category |-> category, Amount |-> amount,
                Description |-> description]
    IN [k \in {key \in DOMAIN all : all[key] # Absent} |-> all[k]]

DateValues ==
    { Absent, None, NaN, Str(<<>>),
      Str(Y2025 \o <<"-", "0", "7", "-", "0", "1">>),
      Str(Y2025 \o <<"-", "7", "-", "1">>),
      Str(<<"0", "7", "/", "0", "1", "/">> \o Y2025),
      Str(Y2025 \o <<"-", "0", "2", "-", "3", "0">>) }

CategoryValues == {Absent, NaN, Str(<<>>), Str(Food)}

AmountValues ==
    { Absent, None, NaN, Str(<<>>), Str(<<"a", "b", "c">>),
      Str(<<"1", "0", ".", "5">>), Str(<<"n", "a", "n">>),
      Str(<<"I", "n", "f", "i", "n", "i", "t", "y">>), Str(<<"\t", "5", "\n">>),
      Str(<<"1", "e", "5">>), Str(<<"1", "_", "0">>), Str(<<"1", "_">>),
      Float(<<"1", "0", ".", "5">>), Float(<<"0", ".", "0">>),
      Float(<<"-", "5", ".", "0">>), IntV(1, BigOf(10)), IntV(1, <<>>),
      IntV(1, BigShl(<<1>>, MaxExponent)) }

DescriptionValues == {Absent, Str(<<>>), Str(Lunch)}

ValidateInputs ==
    { Dict(d, c, a, x) : d \in DateValues, c \in CategoryValues,
                         a \in AmountValues, x \in DescriptionValues }

\* The date texts year sep month sep day over these parts.
DateTexts ==
    { y \o sep \o m \o sep \o d :
        y \in {Y2025, <<"2", "0", "2", "4">>, <<"0", "0", "0", "0">>, <<"2", "5">>,
               <<"9", "9", "9">>},
        sep \in {<<"-">>, <<"/">>},
        m \in {<<"0", "7">>, <<"7">>, <<"0", "2">>, <<"1", "3">>, <<"0", "0">>},
        d \in {<<"0", "1">>, <<"1">>, <<"2", "9">>, <<"3", "0">>, <<"3", "2">>,
               <<" ", "5">>} }

\* Records complete but for the text of their Date.
DateInputRecords ==
    { Dict(Str(t), Str(Food), Float(<<"1", "0", ".", "5">>), Str(<<>>)) : t \in DateTexts }

PureInit(inputs) ==
    /\ file = AbsentFile
    /\ inSession = FALSE
    /\ expenses = <<>>
    /\ monthly_budget = Float(<<"0", ".", "0">>)
    /\ nLoaded = 0
    /\ op = "input"
    /\ arg \in inputs
    /\ out = Nothing

\* validate_expense(arg)
Validate ==
    /\ op = "input"
    /\ op' = "validate"
    /\ out' = validate_expense(arg)
    /\ UNCHANGED <<file, inSession, expenses, monthly_budget, nLoaded, arg>>

InitValidate == PureInit(ValidateInputs)

SpecValidate == InitValidate /\ [][Validate]_vars

InitDate == PureInit(DateInputRecords)

SpecDate == InitDate /\ [][Validate]_vars

----------------------------------------------------------------------------
(* Export, then load what was exported *)

MaxRecords == 2   \* records of an exported ledger

\* Valid records as the form builds them, and one without the optional
\* Description.
RoundTripRecords ==
    { NewExpense(d, c, a, x) :
        d \in {<<2025, 7, 1>>}, c \in {Food},
        a \in {Float(<<"5", ".", "0">>), Float(<<"1", "0", ".", "5">>),
               Float(<<"0", ".", "1">>), Float(<<"1", ".", "2", "3", "9">>)},
        x \in {<<>>, Lunch} }
    \cup { Dict(Str(Strftime(d)), Str(Food), Float(<<"5", ".", "0">>), Absent) :
             d \in {<<2025, 7, 1>>} }

RoundTripInputs ==
    { [raised |-> "", records |-> recs] : recs \in SeqsUpTo(RoundTripRecords, MaxRecords) }

InitRoundTrip == PureInit(RoundTripInputs)

\* save_expenses(records), with the backing file writable or not.
ExportBySave ==
    /\ op = "input"
    /\ op' = "export"
    /\ \E writable \in BOOLEAN :
        LET saved == save_expenses(file, arg.records, writable)
        IN /\ file' = saved.file
           /\ out' = [raised |-> saved.raised, error |-> saved.error]
    /\ UNCHANGED <<inSession, expenses, monthly_budget, nLoaded, arg>>

\* The download of the Save Data page (csv_data of the valid records), put
\* in the place of the backing file.
ExportByDownload ==
    /\ op = "input"
    /\ ValidExpenses(arg.records) # <<>>
    /\ op' = "export"
    /\ file' = csv_data(ValidExpenses(arg.records))
    /\ out' = [raised |-> "", error |-> ""]
    /\ UNCHANGED <<inSession, expenses, monthly_budget, nLoaded, arg>>

\* load_expenses() of the file an export has written
Reload ==
    /\ op = "export"
    /\ out = [raised |-> "", error |-> ""]
    /\ op' = "reload"
    /\ expenses' = load_expenses(file, TRUE).records
    /\ file' = load_expenses(file, TRUE).file
    /\ UNCHANGED <<inSession, monthly_budget, nLoaded, arg, out>>

NextRoundTrip ==
    \/ ExportBySave
    \/ ExportByDownload
    \/ Reload

SpecRoundTrip == InitRoundTrip /\ [][NextRoundTrip]_vars

----------------------------------------------------------------------------
(* What the claims speak of *)

\* The text is a calendar date written YYYY-MM-DD: four, two and two digits.
IsYYYYMMDD(s) ==
    /\ Len(s) = 10
    /\ \A i \in {1, 2, 3, 4, 6, 7, 9, 10} : s[i] \in Digits
    /\ s[5] = "-" /\ s[8] = "-"
    /\ DigitsVal(SubSeq(s, 1, 4)) >= 1
    /\ DigitsVal(SubSeq(s, 6, 7)) \in 1..12
    /\ DigitsVal(SubSeq(s, 9, 10)) \in
            1..DaysInMonth(DigitsVal(SubSeq(s, 1, 4)), DigitsVal(SubSeq(s, 6, 7)))

\* The ExpenseRecord invariants: Date non-empty and YYYY-MM-DD, Category
\* non-empty, Amount a positive finite number.
RecordInvariants(e) ==
    /\ {"Date", "Category", "Amount"} \subseteq DOMAIN e
    /\ e["Date"].t = "str" /\ IsYYYYMMDD(e["Date"].s)
    /\ e["Category"].t = "str" /\ e["Category"].s # <<>>
    /\ e["Amount"].t \in {"int", "float"}
    /\ e["Amount"].v = 1 /\ e["Amount"].m # <<>>

\* The field is missing or empty: no such key, None, the empty text, or the
\* missing value nan that load gives an empty cell.
FieldMissing(e, k) ==
    \/ k \notin DOMAIN e
    \/ e[k].t \in {"none", "nan"}
    \/ (e[k].t = "str" /\ e[k].s = <<>>)

\* Date, Category and Amount are all there and none is None, the empty
\* text or zero.
AllGiven(e) ==
    \A k \in {"Date", "Category", "Amount"} :
        /\ k \in DOMAIN e
        /\ e[k].t # "none"
        /\ ~(e[k].t = "str" /\ e[k].s = <<>>)
        /\ ~(e[k].t \in {"int", "float"} /\ e[k].m = <<>>)

\* The Amount is a text that is no number.
AmountNotNumeric(e) ==
    /\ "Amount" \in DOMAIN e
    /\ e["Amount"].t = "str"
    /\ ~FloatOk(e["Amount"].s)

\* The indices of the records that pass validate.
ValidAt(exps) == {i \in 1..Len(exps) : validate_expense(exps[i]) = Returned(TRUE, "")}

\* The indices of the valid records of the month.
InMonth(exps, ym) ==
    {i \in ValidAt(exps) : SubSeq(exps[i]["Date"].s, 1, 7) = ym}

\* The sum of Amount over the records at I, added as floats in ledger
\* order.
RECURSIVE SumOfAmounts(_, _)
SumOfAmounts(exps, I) ==
    IF I = {} THEN FloatV(1, <<>>, 0)
    ELSE AddFloat(SumOfAmounts(exps, I \ {Max(I)}), FloatOf(exps[Max(I)]["Amount"]))

\* The records at the indices I, in ledger order.
RECURSIVE InOrder(_, _)
InOrder(exps, I) ==
    IF I = {} THEN <<>>
    ELSE Append(InOrder(exps, I \ {Max(I)}), exps[Max(I)])

\* a == b for two Python values: texts by their characters, numbers by
\* their value whether int or float (0.0 == -0.0), nan equal to nothing.
PyEq(a, b) ==
    LET number(x) ==
            IF x.t = "int" THEN [t |-> "float", v |-> x.v] @@ Canonical(x.m, 0)
            ELSE [t |-> x.t, v |-> x.v, m |-> x.m, e |-> x.e]
    IN CASE a.t = "nan" \/ b.t = "nan" -> FALSE
         [] a.t \in {"int", "float"} /\ b.t \in {"int", "float"} ->
                \/ number(a) = number(b)
                \/ (a.m = <<>> /\ b.m = <<>>)
         [] OTHER -> a = b

\* Two ledgers hold the same records in the same order, field for field.
SameRecords(a, b) ==
    /\ Len(a) = Len(b)
    /\ \A i \in 1..Len(a) :
        /\ DOMAIN a[i] = DOMAIN b[i]
        /\ \A k \in DOMAIN a[i] : PyEq(a[i][k], b[i][k])

\* C1: within a session the ledger changes only by a submitted record that
\* passes validation being added at its end; a failed submission gives its
\* reason and changes nothing, and no other page changes the ledger.
C1_LedgerChangesOnlyByAppend ==
    [][ (inSession /\ inSession') =>
          \/ /\ expenses' = expenses
             /\ op' = "add" => (~out'.ok /\ out'.raised = "" /\ out'.msg # "")
          \/ /\ op' = "add"
             /\ out' = Returned(TRUE, "")
             /\ Len(expenses') = Len(expenses) + 1
             /\ expenses'[Len(expenses')] = arg'
             /\ \A i \in 1..Len(expenses) : expenses'[i] = expenses[i] ]_vars

C1_Witness ==
    /\ op = "add" /\ out.ok
    /\ nLoaded > 0
    /\ Len(expenses) = nLoaded + 2
    /\ expenses[Len(expenses)] # expenses[Len(expenses) - 1]

\* C2 as stated: every record of the ledger satisfies the ExpenseRecord
\* invariants.
C2_EveryRecordSatisfiesInvariants ==
    \A i \in 1..Len(expenses) : RecordInvariants(expenses[i])

\* C2 as amended: every record the session appended satisfies the
\* ExpenseRecord invariants (those load returned are not validated).
C2_AppendedRecordsSatisfyInvariants ==
    \A i \in (nLoaded + 1)..Len(expenses) : RecordInvariants(expenses[i])

C2_Witness ==
    /\ inSession
    /\ nLoaded > 0
    /\ ~RecordInvariants(expenses[1])
    /\ Len(expenses) = nLoaded + 2

\* C3: loading what was exported gives back the exported records, in order
\* and equal field for field.
C3_RoundTrip ==
    op = "reload" => SameRecords(expenses, arg.records)

\* C4 as stated: a record whose Amount is not numeric is refused with
\* "Amount must be a valid number."
C4_NonNumericAmountRefused ==
    (op = "validate" /\ AmountNotNumeric(arg)) => out = Returned(FALSE, MsgAmount)

\* C4 as amended: a record whose Date, Category and Amount are all given and
\* whose Amount is not numeric is refused with "Amount must be a valid
\* number.", whatever its Date.
C4_GivenNonNumericAmountRefused ==
    (op = "validate" /\ AllGiven(arg) /\ AmountNotNumeric(arg))
        => out = [raised |-> "", ok |-> FALSE, msg |-> "Amount must be a valid number."]

C4_Witness ==
    /\ op = "validate"
    /\ AllGiven(arg)
    /\ AmountNotNumeric(arg)
    /\ arg["Date"].t = "str" /\ ~IsYYYYMMDD(arg["Date"].s)
    /\ out.msg = MsgAmount

\* C5: a record whose Date is not written YYYY-MM-DD is refused with "Date
\* format should be YYYY-MM-DD."
C5_BadDateRefused ==
    (op = "validate" /\ "Date" \in DOMAIN arg /\ arg["Date"].t = "str"
        /\ ~IsYYYYMMDD(arg["Date"].s))
        => out = [raised |-> "", ok |-> FALSE, msg |-> "Date format should be YYYY-MM-DD."]

\* C6: a record in which Date, Category or Amount is missing or empty is
\* refused with "Missing Date, Category, or Amount."
C6_MissingFieldRefused ==
    (op = "validate" /\ \E k \in {"Date", "Category", "Amount"} : FieldMissing(arg, k))
        => out = [raised |-> "", ok |-> FALSE, msg |-> "Missing Date, Category, or Amount."]

\* C7: the monthly total is the sum of Amount over the valid records whose
\* Date begins with the year-month, and computing it leaves the ledger alone.
C7_MonthlyTotal ==
    op = "track" =>
        /\ out.raised # "TypeError"
        /\ out.total_spending = SumOfAmounts(expenses, InMonth(expenses, arg.current_month))

\* C8: the export holds exactly the valid records, in ledger order; invalid
\* ones are left out without an error; with no valid record nothing is
\* offered.
C8_ExportHoldsValidRecords ==
    op = "save" =>
        /\ out.raised = ""
        /\ out.offered = (ValidAt(expenses) # {})
        /\ out.offered =>
              out.csv_data = to_csv(InOrder(expenses, ValidAt(expenses)),
                                    KeysOf(InOrder(expenses, ValidAt(expenses))))

\* C9: loading when the file does not exist gives the empty ledger and
\* leaves a file of the header Date,Category,Amount,Description alone, from
\* which a further load gives the empty ledger again.
C9_LoadOfAbsentFile ==
    (op = "load" /\ arg.file.kind = "absent") =>
        /\ out = [raised |-> "", records |-> <<>>]
        /\ inSession /\ expenses = <<>>
        /\ file = [kind |-> "csv",
                   header |-> <<"Date", "Category", "Amount", "Description">>,
                   rows |-> <<>>]
        /\ load_expenses(file, TRUE) = [raised |-> "", records |-> <<>>, file |-> file]

\* C10: after the session's load no page changes the backing file: it
\* still reads as the records that load returned, without those the
\* session appended.
C10_FileUnchangedInSession ==
    [][ /\ inSession => file' = file
        /\ inSession' =>
              /\ nLoaded' <= Len(expenses')
              /\ load_expenses(file', TRUE).records = SubSeq(expenses', 1, nLoaded') ]_vars

C10_Witness ==
    /\ op = "save" /\ out.offered
    /\ Len(expenses) > nLoaded
    /\ Len(load_expenses(file, TRUE).records) = nLoaded

====
